---------------------------- MODULE Spec2Model ----------------------------
(***************************************************************************)
(* The file-backed request handlers of the Vinyl-Store repository:         *)
(*   POST /login            src/routes/login.js                            *)
(*   POST /post             src/routes/create-post.js                      *)
(*   DELETE post/:id        src/unnamed/part_000                           *)
(*   PUT /profile-update    src/routes/profile-update.js                   *)
(*   GET /post              src/src/routes/get-post.ts                     *)
(*                                                                         *)
(* One Node.js process serves the requests.  Every handler runs its        *)
(* synchronous part to completion and continues in callbacks of file       *)
(* streams; the callbacks of different requests interleave freely.  The    *)
(* two collection files are shared by all requests and are read and        *)
(* rewritten whole, without locks.                                         *)
(*                                                                         *)
(* Abstractions.  A collection file is small enough to be read by one      *)
(* stream chunk and written by one write call, so a read observes the      *)
(* file at one instant.  The text of a file is kept as the sequence of     *)
(* records it serialises plus a flag telling whether the text is a         *)
(* complete JSON document; the length of a text is compared by its number  *)
(* of records.  An exception thrown inside a stream or fs callback is      *)
(* caught by nobody: the request it belongs to is never answered.          *)
(*                                                                         *)
(* The catalogue service, src/src/reviews/reviews.service.ts (createVinyl, *)
(* createVinylFromDiscogs, updateVinyl, deleteVinyl), is a second          *)
(* specification, SpecVinyl, over the Vinyl table and the file storage:    *)
(* every await of a method is one step, and an awaited promise resolves    *)
(* or rejects.                                                             *)
(***************************************************************************)
EXTENDS Integers, Sequences, FiniteSets, TLC

(***************************************************************************)
(* Bounds of the model.                                                    *)
(***************************************************************************)
MaxReq == 2          \* number of requests the server receives

Req == 1..MaxReq

MaxCall == 2         \* number of calls the vinyl service receives

Call == 1..MaxCall

MaxVinylId == 3      \* largest vinyl id a caller names

VinylId == 1..MaxVinylId

MaxIds == 2          \* largest length of a vinylIds list

\* ids the Vinyl table can hold: every call may add one record of its own
TableId == 1..(MaxVinylId + MaxCall)

(***************************************************************************)
(* JavaScript values.                                                      *)
(***************************************************************************)
Undefined == "undefined"

EmptyRec == [k \in {} |-> Undefined]

\* rec.key: a key the object does not hold reads as undefined
Get(rec, key) == IF key \in DOMAIN rec THEN rec[key] ELSE Undefined

\* obj.key = value
Put(rec, key, value) ==
    [k \in DOMAIN rec \cup {key} |-> IF k = key THEN value ELSE rec[k]]

\* !x for the strings and undefined values the handlers test
Falsy(x) == x = Undefined \/ x = ""

(***************************************************************************)
(* JSON.stringify(array, null, 2) and JSON.parse.  stringify drops every   *)
(* key whose value is undefined; parse throws a SyntaxError on a text that *)
(* is not a complete document (an empty or cut-off file).                  *)
(***************************************************************************)
StringifyRecord(rec) ==
    [k \in {j \in DOMAIN rec : rec[j] # Undefined} |-> rec[k]]

Stringify(arr) ==
    [recs |-> [i \in 1..Len(arr) |-> StringifyRecord(arr[i])], complete |-> TRUE]

ParseThrows(text) == ~text.complete

Parse(text) == text.recs

\* the file right after open(path, 'w'): O_TRUNC leaves an empty text
Truncated == [recs |-> <<>>, complete |-> FALSE]

\* the text read when no read has completed
NoText == [recs |-> <<>>, complete |-> TRUE]

\* a write that adds the text behind what the file holds (flag 'a')
WriteAppended(old, new) ==
    [recs |-> old.recs \o new.recs, complete |-> old.complete \/ old.recs = <<>>]

\* The text is written at offset 0 of the file as it then is: bytes of a
\* longer text written there meanwhile stay behind the new text.
WriteAt(old, new) ==
    IF Len(old.recs) > Len(new.recs)
    THEN [recs |-> old.recs, complete |-> FALSE]
    ELSE new

\* What a write that fails midway can leave: a cut-off text.
CutOff(old, new) ==
    { WriteAt(old, [recs |-> SubSeq(new.recs, 1, k), complete |-> FALSE]) :
        k \in 0..(Len(new.recs) - 1) } \cup {old}

(***************************************************************************)
(* The data the requests work on.                                          *)
(***************************************************************************)
\* bcrypt: the stored hash of each plaintext password
BcryptHash == [pw1 |-> "hash1", pw2 |-> "hash2"]

\* bcrypt.compareSync(password, hash)
CompareSync(password, hash) == BcryptHash[password] = hash

User(id, email, hash, firstName, lastName) ==
    [id |-> id, email |-> email, password |-> hash,
     firstName |-> firstName, lastName |-> lastName]

\* The users file as deployed: one record per email.  The user "u2" has
\* been removed from it; the posts of "u2" are still in the posts file.
UsersUnique ==
    << User("u1", "a@x.com", "hash1", "Ann", "Lee"),
       User("u3", "b@x.com", "hash2", "Cat", "Fox") >>

\* ... or a file in which several records carry the same email
UsersSameEmail ==
    << User("u1", "a@x.com", "hash2", "Ann", "Lee"),
       User("u2", "a@x.com", "hash1", "Bob", "Ray"),
       User("u3", "a@x.com", "hash1", "Cat", "Fox") >>

InitUsers == {UsersUnique, UsersSameEmail}

\* ids the authentication layer injects as req.id
UserIds == {"u1", "u2"}

Emails == {"a@x.com", "b@x.com"}

Passwords == {"pw1", "pw2"}

Names == {"Zoe"}

Titles == {"Hi", "Hello"}

Descriptions == {"short", "a valid description"}

\* values of new Date().toISOString()
Dates == {"2024-10-31T14:01:29.000Z"}

InitPosts ==
    << [id |-> "1", title |-> "First", description |-> "the first post",
        date |-> "2024-10-30T08:00:00.000Z", userId |-> "u1"],
       [id |-> "2", title |-> "Second", description |-> "the second post",
        date |-> "2024-10-30T09:00:00.000Z", userId |-> "u2"] >>

\* values of req.params.id: "3" is the id of the first post created
PostIds == {"1", "2", "3"}

(***************************************************************************)
(* State.                                                                  *)
(***************************************************************************)
VARIABLES
    usersFile,   \* text of the file at USER_DATA_PATH
    postsFile,   \* text of the file at POST_DATA_PATH
    req,         \* per request: the handler's locals, position and response
    wr,          \* per request: progress of the file write it started
    mail,        \* per request: the mail the 'profileUpdated' listener sends
    nextId       \* number of ids uuidv4 has returned, plus one

vars == <<usersFile, postsFile, req, wr, mail, nextId>>

\* The vinyl catalogue (VinylsService): the Vinyl table behind
\* prismaService, the objects behind s3Service and the calls in progress.
VARIABLES
    vinylTable,     \* per vinyl id: the record of the Vinyl table, or NoVinyl
    autoIncrement,  \* the id the table gives the next record created without one
    storage,        \* urls of the objects in file storage
    nextUrl,        \* number of urls uploadFile has returned, plus one
    call            \* per call of the service: its arguments, locals and position

vinylVars == <<vinylTable, autoIncrement, storage, nextUrl, call>>

allVars == <<vars, vinylVars>>

NoResp == [status |-> 0, body |-> EmptyRec]

Resp(status, body) == [status |-> status, body |-> body]

Message(text) == [message |-> text]

NoMail == [state |-> "none", to |-> Undefined]

\* A request not yet received.
\*   kind    which handler serves it
\*   pc      "idle", "reading", "readingUsers", "writing", "done" or "threw"
\*   userId  req.id (req.userId in GET /post)
\*   body    req.body and req.params
\*   post    the post POST /post builds
\*   text    what the last completed read returned
\*   data    the array in the handler's posts / users variable
\*   resp    the response sent
\*   after   the requests answered before this one was received
Idle ==
    [kind |-> "none", pc |-> "idle", userId |-> Undefined, body |-> EmptyRec,
     post |-> EmptyRec, text |-> NoText, data |-> <<>>, resp |-> NoResp,
     after |-> {}]

Answered == {q \in Req : req[q].resp # NoResp}

\* requests are numbered in the order they are received
Arrives(r) ==
    /\ req[r].kind = "none"
    /\ \A q \in 1..(r - 1) : req[q].kind # "none"

Received(r, kind, userId, body) ==
    [Idle EXCEPT !.kind = kind, !.userId = userId, !.body = body,
                 !.after = Answered]

\* no record of the Vinyl table under an id
NoVinyl == [id |-> 0, name |-> Undefined, image |-> Undefined]

\* the n-th url uploadFile returns
Url(n) == "s3/" \o ToString(n)

\* data.images[0].uri of the Discogs release
DiscogsUri(vinylId) == "discogs/" \o ToString(vinylId)

\* data.title of the Discogs release
DiscogsTitle(vinylId) == "release " \o ToString(vinylId)

VinylNames == {"Blue Train"}

\* the catalogue when the service starts: one vinyl with its cover stored
InitVinyls ==
    [id \in TableId |->
        IF id = 1 THEN [id |-> 1, name |-> "Kind of Blue", image |-> Url(1)]
        ELSE NoVinyl]

\* A call not yet made.  before: the ids the table held when the call began.
NoCall ==
    [kind |-> "none", pc |-> "idle", status |-> 0, id |-> 0,
     name |-> Undefined, coverImage |-> FALSE, vinyl |-> NoVinyl,
     url |-> Undefined, vinylIds |-> <<>>, branch |-> <<>>, before |-> {}]

\* calls are numbered in the order they are made
Begins(c) ==
    /\ call[c].kind = "none"
    /\ \A d \in 1..(c - 1) : call[d].kind # "none"

Present == {id \in TableId : vinylTable[id] # NoVinyl}

VinylInit ==
    /\ vinylTable = InitVinyls
    /\ autoIncrement = 2
    /\ storage = {Url(1)}
    /\ nextUrl = 2
    /\ call = [c \in Call |-> NoCall]

Init ==
    /\ usersFile \in {Stringify(u) : u \in InitUsers}
    /\ postsFile = Stringify(InitPosts)
    /\ req = [r \in Req |-> Idle]
    /\ wr = [r \in Req |-> "none"]
    /\ mail = [r \in Req |-> NoMail]
    /\ nextId = Len(InitPosts) + 1
    /\ VinylInit

(***************************************************************************)
(* File streams.  A read stream created by a handler later emits either    *)
(* 'error' or the file's text followed by 'end'.                           *)
(***************************************************************************)
ServerError == "An error occurred. Please try again later."

\* ServerError + err, as login, profile-update and get-post send it
ServerErrorWith(err) == [message |-> ServerError, error |-> err]

\* the body of the 500 sent from a handler's readStream.on('error')
ReadErrorBody(kind) ==
    IF kind \in {"login", "profileUpdate"}
    THEN ServerErrorWith("Error")
    ELSE Message(ServerError)

\* fs.createReadStream: 'error' is emitted instead of the data
ReadError(r) ==
    /\ req[r].pc = "reading"
    /\ req[r].kind \in {"login", "createPost", "deletePost", "profileUpdate"}
    /\ req' = [req EXCEPT ![r].pc = "done",
                          ![r].resp = Resp(500, ReadErrorBody(req[r].kind))]
    /\ UNCHANGED <<usersFile, postsFile, wr, mail, nextId>>
    /\ UNCHANGED vinylVars

(***************************************************************************)
(* POST /login                                                             *)
(***************************************************************************)
\* users.find(u => u.email === email && bcrypt.compareSync(password,
\* u.password)): the index of the first match, 0 for undefined
RECURSIVE FindLoginFrom(_, _, _, _)
FindLoginFrom(users, email, password, i) ==
    IF i > Len(users) THEN 0
    ELSE IF /\ Get(users[i], "email") = email
            /\ CompareSync(password, Get(users[i], "password"))
         THEN i
         ELSE FindLoginFrom(users, email, password, i + 1)

\* a find that compares the email alone
RECURSIVE FindEmailFrom(_, _, _)
FindEmailFrom(users, email, i) ==
    IF i > Len(users) THEN 0
    ELSE IF Get(users[i], "email") = email THEN i
    ELSE FindEmailFrom(users, email, i + 1)

FindLoginByEmail(users, email, password) == FindEmailFrom(users, email, 1)

FindLogin(users, email, password) == FindLoginFrom(users, email, password, 1)

\* jwt.sign({ id: user.id }, SECRET_KEY, { expiresIn: '24h' })
JwtSign(user) == [token |-> [id |-> Get(user, "id")]]

LoginMissingInput(email, password) == Falsy(email) \/ Falsy(password)

Login(r) ==
    /\ Arrives(r)
    /\ \E email \in Emails \cup {Undefined}, password \in Passwords \cup {Undefined} :
         LET rcv == Received(r, "login", Undefined,
                             [email |-> email, password |-> password])
         IN  req' = [req EXCEPT ![r] =
                 IF LoginMissingInput(email, password)
                 THEN [rcv EXCEPT !.pc = "done",
                          !.resp = Resp(400, Message("All input is required."))]
                 ELSE [rcv EXCEPT !.pc = "reading"]]
    /\ UNCHANGED <<usersFile, postsFile, wr, mail, nextId>>
    /\ UNCHANGED vinylVars

LoginResponse(users, email, password) ==
    LET i == FindLogin(users, email, password)
    IN  IF i = 0 THEN Resp(400, Message("Invalid credentials."))
        ELSE Resp(200, JwtSign(users[i]))

LoginEnd(r) ==
    /\ req[r].kind = "login"
    /\ req[r].pc = "reading"
    /\ req' = [req EXCEPT ![r] =
         IF ParseThrows(usersFile)
         THEN [@ EXCEPT !.text = usersFile, !.pc = "threw"]
         ELSE [@ EXCEPT !.text = usersFile, !.data = Parse(usersFile),
                  !.pc = "done",
                  !.resp = LoginResponse(Parse(usersFile), req[r].body.email,
                                         req[r].body.password)]]
    /\ UNCHANGED <<usersFile, postsFile, wr, mail, nextId>>
    /\ UNCHANGED vinylVars

(***************************************************************************)
(* File writes.  fs.createWriteStream(path).write(text) and                *)
(* fs.writeFile(path, text) both open the file with flag 'w', which        *)
(* truncates it, and write the text afterwards.                            *)
(***************************************************************************)
WritesPosts(r) == req[r].kind \in {"createPost", "deletePost"}

WritesUsers(r) == req[r].kind = "profileUpdate"

\* open(path, 'w') succeeds and empties the file, or fails and leaves it
WriteOpen(r) ==
    /\ wr[r] = "pending"
    /\ \/ /\ wr' = [wr EXCEPT ![r] = "opened"]
          /\ postsFile' = IF WritesPosts(r) THEN Truncated ELSE postsFile
          /\ usersFile' = IF WritesUsers(r) THEN Truncated ELSE usersFile
       \/ /\ wr' = [wr EXCEPT ![r] = "failed"]
          /\ UNCHANGED <<usersFile, postsFile>>
    /\ UNCHANGED <<req, mail, nextId>>
    /\ UNCHANGED vinylVars

\* write(fd, text) stores the whole text, or fails having stored part of it
WriteData(r) ==
    /\ wr[r] = "opened"
    /\ LET text == Stringify(req[r].data)
       IN  \/ /\ wr' = [wr EXCEPT ![r] = "done"]
              /\ postsFile' = IF WritesPosts(r) THEN WriteAt(postsFile, text)
                              ELSE postsFile
              /\ usersFile' = IF WritesUsers(r) THEN WriteAt(usersFile, text)
                              ELSE usersFile
           \/ /\ wr' = [wr EXCEPT ![r] = "failed"]
              /\ IF WritesPosts(r)
                 THEN postsFile' \in CutOff(postsFile, text)
                 ELSE postsFile' = postsFile
              /\ IF WritesUsers(r)
                 THEN usersFile' \in CutOff(usersFile, text)
                 ELSE usersFile' = usersFile
    /\ UNCHANGED <<req, mail, nextId>>
    /\ UNCHANGED vinylVars

\* the write a handler started has neither completed nor failed
InFlight(r) == wr[r] \in {"pending", "opened"}

(***************************************************************************)
(* POST /post                                                              *)
(***************************************************************************)
MinTitleLength == 3

MinDescriptionLength == 10

\* a check that only asks for a title
TitleMissing(title) == Falsy(title)

\* !title || title.length < 3
TitleInvalid(title) == Falsy(title) \/ Len(title) < MinTitleLength

\* !description || description.length < 10
DescriptionInvalid(description) ==
    Falsy(description) \/ Len(description) < MinDescriptionLength

\* a generator that returns the same id again
RepeatedId == ToString(Len(InitPosts) + 1)

\* uuidv4(): an id never returned before
uuidv4 == ToString(nextId)

NewPost(id, title, description, date, userId) ==
    [id |-> id, title |-> title, description |-> description,
     date |-> date, userId |-> userId]

CreatePostResponse(title, description) ==
    IF TitleInvalid(title)
    THEN Resp(400, Message("Title is required and should be at least 3 characters long."))
    ELSE IF DescriptionInvalid(description)
    THEN Resp(400, Message("Description is required and should be at least 10 characters long."))
    ELSE NoResp

CreatePost(r) ==
    /\ Arrives(r)
    /\ \E title \in Titles \cup {Undefined},
          description \in Descriptions \cup {Undefined},
          userId \in UserIds :
         LET rcv == Received(r, "createPost", userId,
                             [title |-> title, description |-> description])
             early == CreatePostResponse(title, description)
         IN  \/ /\ early # NoResp
                /\ req' = [req EXCEPT ![r] =
                               [rcv EXCEPT !.pc = "done", !.resp = early]]
                /\ UNCHANGED nextId
             \/ /\ early = NoResp
                /\ \E date \in Dates :
                     req' = [req EXCEPT ![r] =
                         [rcv EXCEPT !.pc = "reading",
                            !.post = NewPost(uuidv4, title, description,
                                             date, userId)]]
                /\ nextId' = nextId + 1
    /\ UNCHANGED <<usersFile, postsFile, wr, mail>>
    /\ UNCHANGED vinylVars

\* postReadStream.on('end'): parse, push, start the write, respond
CreatePostEnd(r) ==
    /\ req[r].kind = "createPost"
    /\ req[r].pc = "reading"
    /\ IF ParseThrows(postsFile)
       THEN /\ req' = [req EXCEPT ![r].text = postsFile, ![r].pc = "threw"]
            /\ UNCHANGED wr
       ELSE /\ req' = [req EXCEPT ![r].text = postsFile,
                         ![r].data = Append(Parse(postsFile), req[r].post),
                         ![r].pc = "done",
                         ![r].resp = Resp(201, Message("Post created successfully."))]
            /\ wr' = [wr EXCEPT ![r] = "pending"]
    /\ UNCHANGED <<usersFile, postsFile, mail, nextId>>
    /\ UNCHANGED vinylVars

(***************************************************************************)
(* DELETE post/:id                                                         *)
(***************************************************************************)
\* posts.find(post => post.id === id && post.userId === userId): the index
\* of the first match, 0 for undefined
RECURSIVE FindPostFrom(_, _, _, _)
FindPostFrom(posts, id, userId, i) ==
    IF i > Len(posts) THEN 0
    ELSE IF Get(posts[i], "id") = id /\ Get(posts[i], "userId") = userId
         THEN i
         ELSE FindPostFrom(posts, id, userId, i + 1)

\* a find that compares the id alone
RECURSIVE FindIdFrom(_, _, _)
FindIdFrom(posts, id, i) ==
    IF i > Len(posts) THEN 0
    ELSE IF Get(posts[i], "id") = id THEN i
    ELSE FindIdFrom(posts, id, i + 1)

FindPostById(posts, id, userId) == FindIdFrom(posts, id, 1)

FindPost(posts, id, userId) == FindPostFrom(posts, id, userId, 1)

\* the filter callback: post.id !== id && post.userId === userId
KeepPost(post, id, userId) ==
    Get(post, "id") # id /\ Get(post, "userId") = userId

FilterPosts(posts, id, userId) ==
    LET Keep(post) == KeepPost(post, id, userId)
    IN  SelectSeq(posts, Keep)

DeletePostResponse(id, userId) ==
    IF Falsy(id) THEN Resp(400, Message("Post ID is required."))
    ELSE IF Falsy(userId) THEN Resp(400, Message("User ID is required."))
    ELSE NoResp

DeletePost(r) ==
    /\ Arrives(r)
    /\ \E id \in PostIds \cup {Undefined}, userId \in UserIds \cup {Undefined} :
         LET rcv == Received(r, "deletePost", userId, [id |-> id])
             early == DeletePostResponse(id, userId)
         IN  req' = [req EXCEPT ![r] =
                 IF early # NoResp
                 THEN [rcv EXCEPT !.pc = "done", !.resp = early]
                 ELSE [rcv EXCEPT !.pc = "reading"]]
    /\ UNCHANGED <<usersFile, postsFile, wr, mail, nextId>>
    /\ UNCHANGED vinylVars

\* readStream.on('end'): parse, look the post up, filter, start the write,
\* respond
DeletePostEnd(r) ==
    /\ req[r].kind = "deletePost"
    /\ req[r].pc = "reading"
    /\ LET id == req[r].body.id
           userId == req[r].userId
       IN  IF ParseThrows(postsFile)
           THEN /\ req' = [req EXCEPT ![r].text = postsFile, ![r].pc = "threw"]
                /\ UNCHANGED wr
           ELSE IF FindPost(Parse(postsFile), id, userId) = 0
           THEN /\ req' = [req EXCEPT ![r].text = postsFile,
                             ![r].data = Parse(postsFile),
                             ![r].pc = "done",
                             ![r].resp = Resp(404, Message("Post not found."))]
                /\ UNCHANGED wr
           ELSE /\ req' = [req EXCEPT ![r].text = postsFile,
                             ![r].data = FilterPosts(Parse(postsFile), id, userId),
                             ![r].pc = "done",
                             ![r].resp = Resp(201, Message("Post deleted successfully."))]
                /\ wr' = [wr EXCEPT ![r] = "pending"]
    /\ UNCHANGED <<usersFile, postsFile, mail, nextId>>
    /\ UNCHANGED vinylVars

(***************************************************************************)
(* PUT /profile-update                                                     *)
(***************************************************************************)
\* the map callback: a record with the caller's id gets both names assigned
UpdateUser(u, id, firstName, lastName) ==
    IF Get(u, "id") = id
    THEN Put(Put(u, "firstName", firstName), "lastName", lastName)
    ELSE u

MapUsers(users, id, firstName, lastName) ==
    [i \in 1..Len(users) |-> UpdateUser(users[i], id, firstName, lastName)]

\* users.find(u => u.id === id): the index of the first match, 0 for
\* undefined
RECURSIVE FindUserFrom(_, _, _)
FindUserFrom(users, id, i) ==
    IF i > Len(users) THEN 0
    ELSE IF Get(users[i], "id") = id THEN i
    ELSE FindUserFrom(users, id, i + 1)

FindUser(users, id) == FindUserFrom(users, id, 1)

ProfileUpdate(r) ==
    /\ Arrives(r)
    /\ \E firstName \in Names \cup {Undefined},
          lastName \in Names \cup {Undefined},
          id \in UserIds :
         req' = [req EXCEPT ![r] =
             [Received(r, "profileUpdate", id,
                       [firstName |-> firstName, lastName |-> lastName])
                EXCEPT !.pc = "reading"]]
    /\ UNCHANGED <<usersFile, postsFile, wr, mail, nextId>>
    /\ UNCHANGED vinylVars

\* readStream.on('end'): parse, map, call fs.writeFile
ProfileUpdateEnd(r) ==
    /\ req[r].kind = "profileUpdate"
    /\ req[r].pc = "reading"
    /\ IF ParseThrows(usersFile)
       THEN /\ req' = [req EXCEPT ![r].text = usersFile, ![r].pc = "threw"]
            /\ UNCHANGED wr
       ELSE /\ req' = [req EXCEPT ![r].text = usersFile,
                         ![r].data = MapUsers(Parse(usersFile), req[r].userId,
                                              req[r].body.firstName,
                                              req[r].body.lastName),
                         ![r].pc = "writing"]
            /\ wr' = [wr EXCEPT ![r] = "pending"]
    /\ UNCHANGED <<usersFile, postsFile, mail, nextId>>
    /\ UNCHANGED vinylVars

\* a callback that emits 'profileUpdated' before it looks at the error
ProfileUpdateEmitsFirst(r) ==
    /\ req[r].kind = "profileUpdate"
    /\ req[r].pc = "writing"
    /\ wr[r] \in {"done", "failed"}
    /\ LET i == FindUser(req[r].data, req[r].userId)
       IN  IF i = 0
           THEN /\ req' = [req EXCEPT ![r].pc = "threw"]
                /\ UNCHANGED mail
           ELSE /\ mail' = [mail EXCEPT ![r] =
                              [state |-> "sending",
                               to |-> Get(req[r].data[i], "email")]]
                /\ req' = [req EXCEPT ![r].pc = "done",
                             ![r].resp =
                                IF wr[r] = "failed"
                                THEN Resp(500, Message(ServerError))
                                ELSE Resp(200, Message("Profile updated successfully."))]
    /\ UNCHANGED <<usersFile, postsFile, wr, nextId>>
    /\ UNCHANGED vinylVars

\* the callback of fs.writeFile: on an error respond 500; otherwise look the
\* user up, emit 'profileUpdated' (whose listener calls sendMail) and
\* respond 200.  user.email throws a TypeError when no user was found.
ProfileUpdateWritten(r) ==
    /\ req[r].kind = "profileUpdate"
    /\ req[r].pc = "writing"
    /\ wr[r] \in {"done", "failed"}
    /\ LET i == FindUser(req[r].data, req[r].userId)
       IN  IF wr[r] = "failed"
           THEN /\ req' = [req EXCEPT ![r].pc = "done",
                             ![r].resp = Resp(500, Message(ServerError))]
                /\ UNCHANGED mail
           ELSE IF i = 0
           THEN /\ req' = [req EXCEPT ![r].pc = "threw"]
                /\ UNCHANGED mail
           ELSE /\ mail' = [mail EXCEPT ![r] =
                              [state |-> "sending",
                               to |-> Get(req[r].data[i], "email")]]
                /\ req' = [req EXCEPT ![r].pc = "done",
                             ![r].resp = Resp(200, Message("Profile updated successfully."))]
    /\ UNCHANGED <<usersFile, postsFile, wr, nextId>>
    /\ UNCHANGED vinylVars

\* the callback of transporter.sendMail: the outcome is only logged
SendMailCallback(r) ==
    /\ mail[r].state = "sending"
    /\ \E outcome \in {"sent", "failed"} :
         mail' = [mail EXCEPT ![r].state = outcome]
    /\ UNCHANGED <<usersFile, postsFile, req, wr, nextId>>
    /\ UNCHANGED vinylVars

(***************************************************************************)
(* GET /post                                                               *)
(***************************************************************************)
\* readDataFromFile<T>(path) resolves with the parsed collection
readDataFromFile(text) == Parse(text)

\* ... and rejects when the text cannot be parsed
readDataFromFileRejects(text) == ParseThrows(text)

\* `${user?.firstName} ${user?.lastName}`
AuthorName(users, i) ==
    IF i = 0 THEN <<Undefined, Undefined>>
    ELSE <<Get(users[i], "firstName"), Get(users[i], "lastName")>>

\* a filter that keeps every post
AnyPost(post, userId) == TRUE

\* the filter callback: post.userId === userId
OwnPost(post, userId) == Get(post, "userId") = userId

\* the map callback
PostEntry(post, authorName) ==
    [title |-> Get(post, "title"), description |-> Get(post, "description"),
     date |-> Get(post, "date"), authorName |-> authorName]

PostResponse(posts, users, userId) ==
    LET Own(post) == OwnPost(post, userId)
        own == SelectSeq(posts, Own)
        authorName == AuthorName(users, FindUser(users, userId))
    IN  [i \in 1..Len(own) |-> PostEntry(own[i], authorName)]

GetPost(r) ==
    /\ Arrives(r)
    /\ \E userId \in UserIds :
         req' = [req EXCEPT ![r] =
             [Received(r, "getPost", userId, EmptyRec) EXCEPT !.pc = "reading"]]
    /\ UNCHANGED <<usersFile, postsFile, wr, mail, nextId>>
    /\ UNCHANGED vinylVars

\* await readDataFromFile<Post>(POST_PATH)
GetPostReadPosts(r) ==
    /\ req[r].kind = "getPost"
    /\ req[r].pc = "reading"
    /\ \/ req' = [req EXCEPT ![r] =
             IF readDataFromFileRejects(postsFile)
             THEN [@ EXCEPT !.text = postsFile, !.pc = "done",
                      !.resp = Resp(500, ServerErrorWith("SyntaxError"))]
             ELSE [@ EXCEPT !.text = postsFile,
                      !.data = readDataFromFile(postsFile),
                      !.pc = "readingUsers"]]
       \/ req' = [req EXCEPT ![r].pc = "done",
                             ![r].resp = Resp(500, ServerErrorWith("Error"))]
    /\ UNCHANGED <<usersFile, postsFile, wr, mail, nextId>>
    /\ UNCHANGED vinylVars

\* await readDataFromFile<User>(USER_PATH), then filter, map and respond
GetPostReadUsers(r) ==
    /\ req[r].kind = "getPost"
    /\ req[r].pc = "readingUsers"
    /\ \/ req' = [req EXCEPT ![r] =
             IF readDataFromFileRejects(usersFile)
             THEN [@ EXCEPT !.text = usersFile, !.pc = "done",
                      !.resp = Resp(500, ServerErrorWith("SyntaxError"))]
             ELSE [@ EXCEPT !.text = usersFile, !.pc = "done",
                      !.resp = Resp(200,
                          [list |-> PostResponse(req[r].data,
                                                 readDataFromFile(usersFile),
                                                 req[r].userId)])]]
       \/ req' = [req EXCEPT ![r].pc = "done",
                             ![r].resp = Resp(500, ServerErrorWith("Error"))]
    /\ UNCHANGED <<usersFile, postsFile, wr, mail, nextId>>
    /\ UNCHANGED vinylVars

(***************************************************************************)
(* VinylsService.  Every await is a step of its own: between two steps of  *)
(* a call the steps of other calls may run.  A prisma, s3Service or axios  *)
(* promise either resolves or rejects; a rejection ends the call.          *)
(***************************************************************************)
\* s3Service.uploadFile stores the object under the url it returns
uploadFile(objects, url) == objects \cup {url}

\* s3Service.deleteFile removes the object of the url
deleteFile(objects, url) == objects \ {url}

\* the call ends with an exception of the status (500 for one that is not
\* an HttpException)
Rejected(c, status) ==
    call' = [call EXCEPT ![c].pc = "rejected", ![c].status = status]

\* createVinyl(dto, coverImage): 400 without a cover image, else the
\* upload starts
CreateVinyl(c) ==
    /\ Begins(c)
    /\ \E name \in VinylNames, coverImage \in BOOLEAN :
         call' = [call EXCEPT ![c] =
                    [NoCall EXCEPT !.kind = "createVinyl", !.name = name,
                                   !.coverImage = coverImage,
                                   !.before = Present,
                                   !.pc = IF coverImage THEN "upload"
                                          ELSE "rejected",
                                   !.status = IF coverImage THEN 0 ELSE 400]]
    /\ UNCHANGED <<vinylTable, autoIncrement, storage, nextUrl>>
    /\ UNCHANGED vars

\* const url = await this.s3Service.uploadFile(coverImage)
CreateVinylUpload(c) ==
    /\ call[c].kind = "createVinyl"
    /\ call[c].pc = "upload"
    /\ \/ /\ storage' = uploadFile(storage, Url(nextUrl))
          /\ nextUrl' = nextUrl + 1
          /\ call' = [call EXCEPT ![c].url = Url(nextUrl), ![c].pc = "create"]
       \/ /\ Rejected(c, 500)
          /\ UNCHANGED <<storage, nextUrl>>
    /\ UNCHANGED <<vinylTable, autoIncrement>>
    /\ UNCHANGED vars

\* await this.prismaService.vinyl.create({data: {..., image: url}}): the
\* table numbers the record.  create never resolves with null, so the
\* deleteFile of lines 189-192 is never reached.
CreateVinylCreate(c) ==
    /\ call[c].kind = "createVinyl"
    /\ call[c].pc = "create"
    /\ \/ /\ vinylTable' = [vinylTable EXCEPT ![autoIncrement] =
                              [id |-> autoIncrement, name |-> call[c].name,
                               image |-> call[c].url]]
          /\ autoIncrement' = autoIncrement + 1
          /\ call' = [call EXCEPT ![c].pc = "resolved", ![c].status = 200,
                                  ![c].id = autoIncrement]
       \/ /\ Rejected(c, 500)
          /\ UNCHANGED <<vinylTable, autoIncrement>>
    /\ UNCHANGED <<storage, nextUrl>>
    /\ UNCHANGED vars

\* updateVinyl(id, dto, coverImage?)
UpdateVinyl(c) ==
    /\ Begins(c)
    /\ \E id \in VinylId, name \in VinylNames \cup {Undefined},
          coverImage \in BOOLEAN :
         call' = [call EXCEPT ![c] =
                    [NoCall EXCEPT !.kind = "updateVinyl", !.id = id,
                                   !.name = name, !.coverImage = coverImage,
                                   !.before = Present, !.pc = "find"]]
    /\ UNCHANGED <<vinylTable, autoIncrement, storage, nextUrl>>
    /\ UNCHANGED vars

\* const vinyl = await findUnique({where: {id}}); 404 when there is none;
\* let url = vinyl.image
UpdateVinylFind(c) ==
    /\ call[c].kind = "updateVinyl"
    /\ call[c].pc = "find"
    /\ \/ IF vinylTable[call[c].id] = NoVinyl
          THEN Rejected(c, 404)
          ELSE call' = [call EXCEPT ![c].vinyl = vinylTable[call[c].id],
                                    ![c].url = vinylTable[call[c].id].image,
                                    ![c].pc = IF call[c].coverImage
                                              THEN "deleteFile" ELSE "update"]
       \/ Rejected(c, 500)
    /\ UNCHANGED <<vinylTable, autoIncrement, storage, nextUrl>>
    /\ UNCHANGED vars

\* await this.s3Service.deleteFile(vinyl.image)
UpdateVinylDeleteFile(c) ==
    /\ call[c].kind = "updateVinyl"
    /\ call[c].pc = "deleteFile"
    /\ \/ /\ storage' = deleteFile(storage, call[c].vinyl.image)
          /\ call' = [call EXCEPT ![c].pc = "upload"]
       \/ /\ Rejected(c, 500)
          /\ UNCHANGED storage
    /\ UNCHANGED <<vinylTable, autoIncrement, nextUrl>>
    /\ UNCHANGED vars

\* url = await this.s3Service.uploadFile(coverImage)
UpdateVinylUpload(c) ==
    /\ call[c].kind = "updateVinyl"
    /\ call[c].pc = "upload"
    /\ \/ /\ storage' = uploadFile(storage, Url(nextUrl))
          /\ nextUrl' = nextUrl + 1
          /\ call' = [call EXCEPT ![c].url = Url(nextUrl), ![c].pc = "update"]
       \/ /\ Rejected(c, 500)
          /\ UNCHANGED <<storage, nextUrl>>
    /\ UNCHANGED <<vinylTable, autoIncrement>>
    /\ UNCHANGED vars

\* name ?? vinyl.name
OrElse(value, other) == IF value = Undefined THEN other ELSE value

\* await this.prismaService.vinyl.update({where: {id}, data: {..., image:
\* url}}); update rejects when the record is no longer there
UpdateVinylUpdate(c) ==
    /\ call[c].kind = "updateVinyl"
    /\ call[c].pc = "update"
    /\ \/ /\ vinylTable[call[c].id] # NoVinyl
          /\ vinylTable' = [vinylTable EXCEPT ![call[c].id] =
                              [id |-> call[c].id,
                               name |-> OrElse(call[c].name, call[c].vinyl.name),
                               image |-> call[c].url]]
          /\ call' = [call EXCEPT ![c].pc = "resolved", ![c].status = 200]
       \/ /\ Rejected(c, 500)
          /\ UNCHANGED vinylTable
    /\ UNCHANGED <<autoIncrement, storage, nextUrl>>
    /\ UNCHANGED vars

\* deleteVinyl(id)
DeleteVinyl(c) ==
    /\ Begins(c)
    /\ \E id \in VinylId :
         call' = [call EXCEPT ![c] =
                    [NoCall EXCEPT !.kind = "deleteVinyl", !.id = id,
                                   !.before = Present, !.pc = "find"]]
    /\ UNCHANGED <<vinylTable, autoIncrement, storage, nextUrl>>
    /\ UNCHANGED vars

\* const vinyl = await findUnique({where: {id}}); 404 when there is none
DeleteVinylFind(c) ==
    /\ call[c].kind = "deleteVinyl"
    /\ call[c].pc = "find"
    /\ \/ IF vinylTable[call[c].id] = NoVinyl
          THEN Rejected(c, 404)
          ELSE call' = [call EXCEPT ![c].vinyl = vinylTable[call[c].id],
                                    ![c].pc = "deleteFile"]
       \/ Rejected(c, 500)
    /\ UNCHANGED <<vinylTable, autoIncrement, storage, nextUrl>>
    /\ UNCHANGED vars

\* await this.s3Service.deleteFile(vinyl.image)
DeleteVinylDeleteFile(c) ==
    /\ call[c].kind = "deleteVinyl"
    /\ call[c].pc = "deleteFile"
    /\ \/ /\ storage' = deleteFile(storage, call[c].vinyl.image)
          /\ call' = [call EXCEPT ![c].pc = "delete"]
       \/ /\ Rejected(c, 500)
          /\ UNCHANGED storage
    /\ UNCHANGED <<vinylTable, autoIncrement, nextUrl>>
    /\ UNCHANGED vars

\* await this.prismaService.vinyl.delete({where: {id}}); delete rejects
\* when the record is no longer there
DeleteVinylDelete(c) ==
    /\ call[c].kind = "deleteVinyl"
    /\ call[c].pc = "delete"
    /\ \/ /\ vinylTable[call[c].id] # NoVinyl
          /\ vinylTable' = [vinylTable EXCEPT ![call[c].id] = NoVinyl]
          /\ call' = [call EXCEPT ![c].pc = "resolved", ![c].status = 200]
       \/ /\ Rejected(c, 500)
          /\ UNCHANGED vinylTable
    /\ UNCHANGED <<autoIncrement, storage, nextUrl>>
    /\ UNCHANGED vars

\* One branch of vinylIds.map(async (vinylId) => ...).  fetched: the branch
\* has sent the Discogs request; issued: whether the table held the id
\* when the branch issued its create ("no": none issued).
NewBranch(vinylId) ==
    [vinylId |-> vinylId, pc |-> "find", fetched |-> FALSE, issued |-> "no"]

VinylIdLists == UNION {[1..n -> VinylId] : n \in 0..MaxIds}

\* createVinylFromDiscogs(query): map starts one branch per element of
\* vinylIds, each up to its findUnique; Promise.all of no branch resolves
CreateVinylFromDiscogs(c) ==
    /\ Begins(c)
    /\ \E vinylIds \in VinylIdLists :
         call' = [call EXCEPT ![c] =
                    [NoCall EXCEPT !.kind = "createVinylFromDiscogs",
                                   !.vinylIds = vinylIds,
                                   !.branch = [b \in 1..Len(vinylIds) |->
                                                 NewBranch(vinylIds[b])],
                                   !.before = Present,
                                   !.pc = IF vinylIds = <<>> THEN "resolved"
                                          ELSE "branches",
                                   !.status = IF vinylIds = <<>> THEN 200
                                              ELSE 0]]
    /\ UNCHANGED <<vinylTable, autoIncrement, storage, nextUrl>>
    /\ UNCHANGED vars

BranchOver(branch) == branch.pc \in {"returned", "rejected"}

\* Promise.all: rejects with the first branch that rejects, resolves when
\* every branch has returned; the other branches run on after a rejection
PromiseAll(old, branches, b) ==
    LET status ==
            IF old.status # 0 THEN old.status
            ELSE IF branches[b].pc = "rejected" THEN 500
            ELSE IF \A i \in DOMAIN branches : branches[i].pc = "returned"
                 THEN 200
            ELSE 0
    IN  [old EXCEPT !.branch = branches,
                    !.status = status,
                    !.pc = IF \E i \in DOMAIN branches : ~BranchOver(branches[i])
                           THEN "branches"
                           ELSE IF status = 200 THEN "resolved"
                           ELSE "rejected"]

AtBranch(c, b, pc) ==
    /\ call[c].kind = "createVinylFromDiscogs"
    /\ b \in DOMAIN call[c].branch
    /\ call[c].branch[b].pc = pc

BranchStep(c, b, branch) ==
    call' = [call EXCEPT ![c] =
               PromiseAll(call[c], [call[c].branch EXCEPT ![b] = branch], b)]

\* const existingVinyl = await findUnique({where: {id: vinylId}});
\* if (existingVinyl) return existingVinyl
DiscogsFind(c, b) ==
    /\ AtBranch(c, b, "find")
    /\ LET branch == call[c].branch[b]
       IN  \/ BranchStep(c, b,
                [branch EXCEPT !.pc = IF vinylTable[branch.vinylId] # NoVinyl
                                      THEN "returned" ELSE "fetch"])
           \/ BranchStep(c, b, [branch EXCEPT !.pc = "rejected"])
    /\ UNCHANGED <<vinylTable, autoIncrement, storage, nextUrl>>
    /\ UNCHANGED vars

\* const { data } = await axios.get(`${discogsUrl}/releases/${vinylId}`)
DiscogsFetch(c, b) ==
    /\ AtBranch(c, b, "fetch")
    /\ LET branch == call[c].branch[b]
       IN  \/ BranchStep(c, b, [branch EXCEPT !.fetched = TRUE, !.pc = "create"])
           \/ BranchStep(c, b, [branch EXCEPT !.fetched = TRUE, !.pc = "rejected"])
    /\ UNCHANGED <<vinylTable, autoIncrement, storage, nextUrl>>
    /\ UNCHANGED vars

\* a record created under a given id moves the table's numbering past it
Advance(next, id) == IF id >= next THEN id + 1 ELSE next

\* const newVinyl = await this.prismaService.vinyl.create({data: {id:
\* vinylId, ..., image: data.images[0].uri}}): create rejects on an id the
\* table holds (the primary key is unique)
DiscogsCreate(c, b) ==
    /\ AtBranch(c, b, "create")
    /\ LET branch == call[c].branch[b]
           held == vinylTable[branch.vinylId] # NoVinyl
           issued == [branch EXCEPT !.issued = IF held THEN "present"
                                               ELSE "absent"]
       IN  \/ /\ ~held
              /\ vinylTable' = [vinylTable EXCEPT ![branch.vinylId] =
                                  [id |-> branch.vinylId,
                                   name |-> DiscogsTitle(branch.vinylId),
                                   image |-> DiscogsUri(branch.vinylId)]]
              /\ autoIncrement' = Advance(autoIncrement, branch.vinylId)
              /\ BranchStep(c, b, [issued EXCEPT !.pc = "returned"])
           \/ /\ BranchStep(c, b, [issued EXCEPT !.pc = "rejected"])
              /\ UNCHANGED <<vinylTable, autoIncrement>>
    /\ UNCHANGED <<storage, nextUrl>>
    /\ UNCHANGED vars

VinylNext ==
    \E c \in Call :
        \/ CreateVinyl(c)
        \/ CreateVinylUpload(c)
        \/ CreateVinylCreate(c)
        \/ UpdateVinyl(c)
        \/ UpdateVinylFind(c)
        \/ UpdateVinylDeleteFile(c)
        \/ UpdateVinylUpload(c)
        \/ UpdateVinylUpdate(c)
        \/ DeleteVinyl(c)
        \/ DeleteVinylFind(c)
        \/ DeleteVinylDeleteFile(c)
        \/ DeleteVinylDelete(c)
        \/ CreateVinylFromDiscogs(c)
        \/ \E b \in 1..MaxIds :
              \/ DiscogsFind(c, b)
              \/ DiscogsFetch(c, b)
              \/ DiscogsCreate(c, b)

\* the service starts beside a server of the routes with its deployed files
VinylServiceInit == Init /\ usersFile = Stringify(UsersUnique)

\* the service alone: the server of the routes receives no request
SpecVinyl == VinylServiceInit /\ [][VinylNext]_allVars

(***************************************************************************)
(* The server.                                                             *)
(***************************************************************************)
Next ==
    \E r \in Req :
        \/ Login(r)
        \/ LoginEnd(r)
        \/ CreatePost(r)
        \/ CreatePostEnd(r)
        \/ DeletePost(r)
        \/ DeletePostEnd(r)
        \/ ProfileUpdate(r)
        \/ ProfileUpdateEnd(r)
        \/ ProfileUpdateWritten(r)
        \/ SendMailCallback(r)
        \/ GetPost(r)
        \/ GetPostReadPosts(r)
        \/ GetPostReadUsers(r)
        \/ ReadError(r)
        \/ WriteOpen(r)
        \/ WriteData(r)

Spec == Init /\ [][Next]_allVars

(***************************************************************************)
(* Properties.                                                             *)
(***************************************************************************)
Status(r) == req[r].resp.status

\* no request but r has been received
ServedAlone(r) == \A q \in Req \ {r} : req[q].kind = "none"

\* C1: a DELETE post/:id by user U answered 201 rewrites the posts
\* collection to the collection it read minus exactly the posts whose id is
\* :id and whose userId is U; every other post, those of other users
\* included, is still there, unchanged and in the same order.
C1_DeleteRemovesOnlyTheCallersPost ==
    \A r \in Req :
        (req[r].kind = "deletePost" /\ Status(r) = 201) =>
            LET Stays(post) == ~(post.id = req[r].body.id
                                 /\ post.userId = req[r].userId)
            IN  req[r].data = SelectSeq(req[r].text.recs, Stays)

\* C2: in POST /post, DELETE post/:id and PUT /profile-update a response is
\* sent only after the write of the collection file has completed or
\* failed: no request is answered while the write it started is in flight.
C2_RespondsAfterTheWrite ==
    \A r \in Req :
        (req[r].kind \in {"createPost", "deletePost", "profileUpdate"}
         /\ req[r].resp # NoResp)
            => ~InFlight(r)

\* C3: once POST /post by user U has been answered 201, every GET /post by
\* U received after that response, with no delete request in between,
\* returns a list holding the title, description and date of the new post.
C3_ReadYourWrites ==
    \A g \in Req : \A p \in req[g].after :
        (/\ req[g].kind = "getPost"
         /\ Status(g) = 200
         /\ req[p].kind = "createPost"
         /\ Status(p) = 201
         /\ req[p].userId = req[g].userId
         /\ \A q \in Req : req[q].kind # "deletePost")
            => \E i \in 1..Len(req[g].resp.body.list) :
                 LET entry == req[g].resp.body.list[i]
                 IN  /\ entry.title = req[p].post.title
                     /\ entry.description = req[p].post.description
                     /\ entry.date = req[p].post.date

\* C4: every completed read of a collection file returns the whole text
\* left by a complete write or the initial text, never an empty, cut-off or
\* partly written one.  (In this model a text is complete exactly when a
\* complete write or the deployment left it.)
C4_ReadsSeeCompleteTexts ==
    \A r \in Req : req[r].text.complete

\* C5: when a request is answered 500 the persisted collections are what
\* they were before the request was received.  Stated for a request served
\* alone, for which that is the deployed content of both files.
C5_FailureLeavesTheFilesIntact ==
    \A r \in Req :
        (Status(r) = 500 /\ ServedAlone(r)) =>
            /\ postsFile = Stringify(InitPosts)
            /\ usersFile \in {Stringify(u) : u \in InitUsers}

\* C6: every failing request is answered: a request whose handler has run
\* its last step (nothing it started is pending) has received a response
\* with a status and a message.
C6_EveryRequestIsAnswered ==
    \A r \in Req :
        (req[r].pc \in {"done", "threw"} /\ ~InFlight(r)) =>
            /\ Status(r) # 0
            /\ req[r].resp.body # EmptyRec

\* the request's input fails the validation the specification demands
InvalidInput(r) ==
    LET b == req[r].body
    IN  \/ /\ req[r].kind = "createPost"
           /\ \/ b.title = Undefined
              \/ Len(b.title) < 3
              \/ b.description = Undefined
              \/ Len(b.description) < 10
        \/ /\ req[r].kind = "login"
           /\ (b.email = Undefined \/ b.password = Undefined)
        \/ /\ req[r].kind = "deletePost"
           /\ (b.id = Undefined \/ req[r].userId = Undefined)

\* C7: validation precedes storage.  A POST /post whose title or
\* description is missing or too short, a POST /login without email or
\* password and a DELETE post/:id without post id or user id are answered
\* 400 without a read or a write of a collection file ever being started.
C7_ValidationPrecedesStorage ==
    \A r \in Req :
        InvalidInput(r) =>
            /\ Status(r) = 400
            /\ req[r].pc = "done"
            /\ req[r].text = NoText
            /\ wr[r] = "none"

C7_Witness ==
    /\ req[1].kind = "createPost" /\ req[1].body.title = "Hello"
    /\ req[1].body.description = "short" /\ Status(1) = 400
    /\ req[2].kind = "deletePost" /\ req[2].userId = Undefined
    /\ req[2].body.id = "1" /\ Status(2) = 400

IdsOf(posts) == {posts[i].id : i \in 1..Len(posts)}

\* C8: with a generator that never repeats an id, the persisted posts
\* collection never holds two records with the same id, whatever POST /post
\* and DELETE post/:id requests interleave; and the id of a new post is the
\* id of no other post, present or removed.
C8_IdsAreUnique ==
    /\ Cardinality(IdsOf(postsFile.recs)) = Len(postsFile.recs)
    /\ \A r \in Req :
         req[r].post # EmptyRec =>
            /\ req[r].post.id \notin IdsOf(InitPosts)
            /\ \A q \in Req \ {r} :
                 req[q].post # EmptyRec => req[q].post.id # req[r].post.id

C8_Witness ==
    /\ postsFile.complete
    /\ IdsOf(postsFile.recs) = {"3"}
    /\ \E r, q \in Req :
         /\ req[r].kind = "createPost" /\ wr[r] = "done"
         /\ req[q].kind = "deletePost" /\ wr[q] = "done"

\* the record holds the email given and the hash of the password given
Matches(u, b) == u.email = b.email /\ BcryptHash[b.password] = u.password

\* a login with both fields present has read the users collection and
\* answered
LoginAnswered(r) ==
    /\ req[r].kind = "login"
    /\ req[r].body.email # Undefined
    /\ req[r].body.password # Undefined
    /\ req[r].pc = "done"
    /\ Status(r) # 500

LoginAnswerIsRight ==
    \A r \in Req :
        LoginAnswered(r) =>
            LET users == req[r].text.recs
                hits == {i \in 1..Len(users) : Matches(users[i], req[r].body)}
            IN  IF hits = {}
                THEN /\ Status(r) = 400
                     /\ "token" \notin DOMAIN req[r].resp.body
                ELSE /\ Status(r) = 200
                     /\ \E i \in hits :
                          /\ \A j \in hits : i <= j
                          /\ req[r].resp.body = [token |-> [id |-> users[i].id]]

\* a step of request r: its handler or the write it started moves
StepOf(r) == req'[r] # req[r] \/ wr'[r] # wr[r] \/ mail'[r] # mail[r]

LoginStep == \E r \in Req : StepOf(r) /\ req'[r].kind = "login"

\* C9: POST /login with both fields present and a readable users collection
\* answers 200 with a token exactly when the collection holds a record with
\* the email given whose stored hash matches the password given; the token
\* carries the id of the first such record; otherwise the answer is 400
\* without a token.  No step of a login changes the users collection.
C9_Login ==
    /\ []LoginAnswerIsRight
    /\ [][LoginStep => usersFile' = usersFile]_vars

C9_Witness ==
    \E r \in Req :
        /\ LoginAnswered(r)
        /\ Status(r) = 200
        /\ req[r].text.recs = Stringify(UsersSameEmail).recs
        /\ req[r].resp.body.token.id = "u2"

\* the posts of the caller among the posts the request read, by position
OwnIndexes(r) ==
    {i \in 1..Len(req[r].data) : req[r].data[i].userId = req[r].userId}

GetPostListIsRight ==
    \A r \in Req :
        (req[r].kind = "getPost" /\ Status(r) = 200) =>
            LET list == req[r].resp.body.list
                own == OwnIndexes(r)
                Rank(i) == Cardinality({j \in own : j <= i})
            IN  /\ Len(list) = Cardinality(own)
                /\ \A i \in own :
                     /\ list[Rank(i)].title = req[r].data[i].title
                     /\ list[Rank(i)].description = req[r].data[i].description
                     /\ list[Rank(i)].date = req[r].data[i].date

GetPostStep == \E r \in Req : StepOf(r) /\ req'[r].kind = "getPost"

\* C10: GET /post for caller U returns exactly one entry per post of the
\* posts collection whose userId is U, in collection order, and no entry
\* made from a post of another user; no step of the request changes the
\* posts or the users collection.
C10_GetPost ==
    /\ []GetPostListIsRight
    /\ [][GetPostStep => UNCHANGED <<postsFile, usersFile>>]_vars

C10_Witness ==
    \E r \in Req :
        /\ req[r].kind = "getPost"
        /\ Status(r) = 200
        /\ Len(req[r].data) = 3
        /\ Len(req[r].resp.body.list) = 2

\* a delete with both ids present has read the posts collection and answered
DeleteAnswered(r) ==
    /\ req[r].kind = "deletePost"
    /\ req[r].body.id # Undefined
    /\ req[r].userId # Undefined
    /\ req[r].pc = "done"
    /\ Status(r) # 500

\* the posts the request read that carry the id given and belong to the caller
DeleteTargets(r) ==
    {i \in 1..Len(req[r].text.recs) :
        /\ req[r].text.recs[i].id = req[r].body.id
        /\ req[r].text.recs[i].userId = req[r].userId}

DeleteOfNoOwnPostIs404 ==
    \A r \in Req :
        DeleteAnswered(r) =>
            IF DeleteTargets(r) = {}
            THEN /\ req[r].resp = Resp(404, Message("Post not found."))
                 /\ wr[r] = "none"
            ELSE Status(r) = 201

\* a step of a delete request that has started no write
UnwrittenDeleteStep ==
    \E r \in Req :
        StepOf(r) /\ req'[r].kind = "deletePost" /\ wr'[r] = "none"

\* C11: a DELETE post/:id by user U for an id no post has, or for an id
\* whose post belongs to another user, is answered with the same 404 in
\* both cases, starts no write and leaves the persisted posts collection
\* unchanged.
C11_DeleteNotFound ==
    /\ []DeleteOfNoOwnPostIs404
    /\ [][UnwrittenDeleteStep => postsFile' = postsFile]_vars

C11_Witness ==
    /\ DeleteAnswered(1) /\ req[1].body.id = "3" /\ req[1].userId = "u1"
    /\ DeleteAnswered(2) /\ req[2].body.id = "2" /\ req[2].userId = "u1"
    /\ Status(1) = 404
    /\ req[2].resp = req[1].resp
    /\ postsFile = Stringify(InitPosts)

UserFields == {"id", "email", "password", "firstName", "lastName"}

\* C12: after any sequence of login, profile-update, create-post and
\* delete-post requests, whatever their bodies, every record of the
\* persisted users collection still holds all five fields id, email,
\* password, firstName and lastName.
C12_UserRecordsStayWhole ==
    \A i \in 1..Len(usersFile.recs) : UserFields \subseteq DOMAIN usersFile.recs[i]

\* two POST /post requests that loaded the same collection, were both
\* answered 201 and whose writes have both completed
BothCreated(r, q) ==
    /\ r # q
    /\ req[r].kind = "createPost" /\ req[q].kind = "createPost"
    /\ Status(r) = 201 /\ Status(q) = 201
    /\ req[r].text = req[q].text
    /\ wr[r] = "done" /\ wr[q] = "done"

Persisted(post) == \E i \in 1..Len(postsFile.recs) : postsFile.recs[i] = post

\* no request but r and q has started a write
OnlyWriters(r, q) == \A p \in Req \ {r, q} : wr[p] = "none"

\* C13: a lost update is reachable.  When two POST /post requests have
\* each loaded the same collection, both have been answered 201 and both
\* writes have completed, the persisted collection never holds both new
\* posts: the later write has overwritten the earlier one, and with no
\* other writer exactly one of the two posts is persisted.
C13_LostUpdate ==
    \A r, q \in Req :
        BothCreated(r, q) =>
            /\ ~(Persisted(req[r].post) /\ Persisted(req[q].post))
            /\ (OnlyWriters(r, q) /\ postsFile.complete) =>
                    (Persisted(req[r].post) \/ Persisted(req[q].post))

C13_Witness ==
    /\ BothCreated(1, 2)
    /\ postsFile.complete
    /\ Len(postsFile.recs) = Len(InitPosts) + 1
    /\ Persisted(req[2].post)
    /\ ~Persisted(req[1].post)

\* a profile update, served alone, that has read the users collection and
\* run its last step
ProfileUpdateOver(r) ==
    /\ req[r].kind = "profileUpdate"
    /\ ServedAlone(r)
    /\ req[r].text # NoText
    /\ req[r].pc \in {"done", "threw"}
    /\ ~InFlight(r)

\* after differs from before at most in the names of the records with the id
NamesOnly(before, after, id) ==
    /\ Len(after) = Len(before)
    /\ \A i \in 1..Len(before) :
         /\ Get(after[i], "id") = Get(before[i], "id")
         /\ Get(after[i], "email") = Get(before[i], "email")
         /\ Get(after[i], "password") = Get(before[i], "password")
         /\ Get(before[i], "id") # id => after[i] = before[i]
    /\ (\A i \in 1..Len(before) : Get(before[i], "id") # id) => after = before

\* C14: PUT /profile-update by caller id U changes only the firstName and
\* lastName of the records whose id is U: the id, email and password of
\* every record, every field of the other records and the number and order
\* of the records are the same in the persisted users collection after the
\* request as before, and with no record of id U the collection is
\* unchanged.  Stated for a request served alone, for which the collection
\* before the request is the one it read.
C14_ProfileUpdateFrame ==
    \A r \in Req :
        ProfileUpdateOver(r) =>
            /\ NamesOnly(req[r].text.recs, usersFile.recs, req[r].userId)
            /\ usersFile.complete

\* 'profileUpdated' has been emitted for the request
Emitted(r) == mail[r].state # "none"

\* emitted only for a request whose write is done and which is answered 200
EmittedAfterTheWrite ==
    \A r \in Req :
        /\ Emitted(r) => /\ req[r].kind = "profileUpdate"
                         /\ wr[r] = "done"
                         /\ req[r].resp = Resp(200, Message("Profile updated successfully."))
        /\ (req[r].kind = "profileUpdate" /\ Status(r) = 500) => ~Emitted(r)

\* the step in which the request's notification is emitted
EmitStep(r) == ~Emitted(r) /\ mail'[r].state # "none"

\* the step in which the request's mail send ends
MailStep(r) == Emitted(r) /\ mail'[r] # mail[r]

\* C15: in PUT /profile-update 'profileUpdated' is emitted only after the
\* write of the users collection has completed successfully and never for
\* a request whose write failed (500); the end of the mail send, failure
\* included, changes neither the persisted collections nor the response.
C15_NotifiedAfterTheWrite ==
    /\ []EmittedAfterTheWrite
    /\ [][\A r \in Req :
            /\ EmitStep(r) => wr[r] = "done" /\ usersFile' = usersFile
            /\ MailStep(r) => /\ usersFile' = usersFile
                              /\ postsFile' = postsFile
                              /\ req'[r] = req[r]]_vars

C15_Witness ==
    /\ req[1].kind = "profileUpdate"
    /\ mail[1].state = "failed"
    /\ Status(1) = 200
    /\ usersFile = Stringify(req[1].data)
    /\ usersFile # req[1].text
    /\ req[2].kind = "profileUpdate"
    /\ wr[2] = "failed"
    /\ Status(2) = 500
    /\ mail[2].state = "none"

(***************************************************************************)
(* Properties of VinylsService.                                            *)
(***************************************************************************)
\* the call is the only one the service has received
CalledAlone(c) == \A d \in Call \ {c} : call[d].kind = "none"

\* the branches of the call that have issued a create for the id
Issued(c, id) ==
    {b \in DOMAIN call[c].branch :
        call[c].branch[b].vinylId = id /\ call[c].branch[b].issued # "no"}

\* the branches of the call that have created the record of the id
Created(c, id) ==
    {b \in Issued(c, id) : call[c].branch[b].pc = "returned"}

\* the branches of the call whose findUnique found the record
Found(c) ==
    {b \in DOMAIN call[c].branch :
        /\ call[c].branch[b].pc = "returned"
        /\ call[c].branch[b].issued = "no"}

\* C16: createVinylFromDiscogs never issues a create for a vinyl id that
\* already exists or that another branch of the same call is creating,
\* whatever the vinylIds list (the same id twice included) and the
\* interleaving of its branches: each distinct absent id is created
\* exactly once, and an id already present is returned without any fetch
\* or create.  Stated for a call that is the only one the service runs.
C16_DiscogsCreatesOnce ==
    \A c \in Call :
        (call[c].kind = "createVinylFromDiscogs" /\ CalledAlone(c)) =>
            /\ \A b \in DOMAIN call[c].branch :
                 call[c].branch[b].issued # "present"
            /\ \A id \in VinylId : Cardinality(Created(c, id)) <= 1
            /\ \A id \in call[c].before : Issued(c, id) = {}
            /\ \A b \in Found(c) : ~call[c].branch[b].fetched
            /\ call[c].pc = "resolved" =>
                 \A b \in DOMAIN call[c].branch :
                    call[c].branch[b].vinylId \notin call[c].before =>
                        Cardinality(Created(c, call[c].branch[b].vinylId)) = 1

\* no call is in progress
Quiet == \A c \in Call : call[c].pc \in {"idle", "resolved", "rejected"}

\* C17: after any sequence of createVinyl, updateVinyl and deleteVinyl
\* calls in which any storage or database step may fail, every record of
\* the Vinyl table references a cover image that is present in file
\* storage.
C17_CoversAreStored ==
    (/\ Quiet
     /\ \A c \in Call : call[c].kind # "createVinylFromDiscogs") =>
        \A id \in Present : vinylTable[id].image \in storage

=============================================================================
